---------------------------- MODULE Spec2Model ----------------------------
(***************************************************************************)
(* Model of the frame loop of ShapesApp (week3-1-BoxApp.cpp): the ring of  *)
(* gNumFrameResources frame resources, the fence that orders the CPU after *)
(* the GPU, the per-object / per-pass constant buffers and the descriptor  *)
(* table that addresses them.                                              *)
(*                                                                         *)
(* The CPU is one thread whose position is pc; the GPU consumes its queue  *)
(* asynchronously.  Float matrices are abstracted to 2x2 integer matrices  *)
(* (one per render item) so that the transpose written into the constant   *)
(* buffer is a real conversion.                                            *)
(*                                                                         *)
(* Initialize (the shape geometry, the render items and the descriptor     *)
(* addressing built from generated meshes of varying sizes) and the window *)
(* callbacks (OnResize, OnMouseDown, OnMouseUp, OnMouseMove) are actions   *)
(* of the specifications GeoSpec and SceneSpec.                            *)
(***************************************************************************)
EXTENDS Integers, Sequences, FiniteSets, TLC

\* ------------------------------------------------------------------ bounds
\* Number of Update calls the model explores.
MaxFrames == 5
\* mCurrentFence after Initialize lies in 0..MaxInitFence (set by the base
\* class's queue flushes during initialization).
MaxInitFence == 1
\* The generated meshes have 3 .. MaxMeshVertices vertices.
MaxMeshVertices == 4
\* Number of window callbacks (resize, mouse) the model explores.
MaxCallbacks == 1
\* The mouse is reported at the origin or MouseStep pixels right of or below it.
MouseStep == 200
\* Number of Update calls explored together with the window callbacks.
SceneFrames == 4
\* Number of mouse events explored on their own.
MaxCameraEvents == 3
\* A drag across the window, in pixels.
LongDrag == 2500

\* ------------------------------------------------------- program constants
gNumFrameResources == 3

Slots == 0 .. (gNumFrameResources - 1)

\* ------------------------------------------------------------ render items
\* RenderItem(): NumFramesDirty starts at gNumFrameResources.
InitNumFramesDirty_OneShort == gNumFrameResources - 1
InitNumFramesDirty == gNumFrameResources

\* The World matrix of the item at position k of mAllRitems: a scaling on
\* the diagonal times a translation in the last row (row-vector convention).
WorldOf(k) == << <<k, 0>>, <<k + 1, 1>> >>

\* XMMatrixTranspose on the abstracted matrix.
XMMatrixTranspose(m) == << <<m[1][1], m[2][1]>>, <<m[1][2], m[2][2]>> >>

\* A RenderItem and the ObjCBIndex assigned to it (its default is -1).
RI_DefaultIndex(shape, objCBIndex) == [Shape |-> shape, ObjCBIndex |-> -1]
RI(shape, objCBIndex) == [Shape |-> shape, ObjCBIndex |-> objCBIndex]

\* BuildRenderItems: the items in the order they are pushed to mAllRitems,
\* with the ObjCBIndex each one is given (wallIndex starts at 4 and is
\* post-incremented; the towers use the loop index; the grid uses the size
\* of the list so far).
BuildRenderItems ==
    LET wallIndex0 == 4
        walls  == [i \in 1..4 |-> RI("box", wallIndex0 + (i - 1))]
        wallIndex1 == wallIndex0 + 4
        towers == [j \in 1..8 |->
                     IF j % 2 = 1
                        THEN RI("cylinder", (j - 1) \div 2)
                        ELSE RI("cone", wallIndex1 + ((j - 2) \div 2))]
        wallIndex2 == wallIndex1 + 4
        door       == << RI("door", wallIndex2) >>
        leftWedge  == << RI("wedge", wallIndex2 + 1) >>
        rightWedge == << RI("wedge", wallIndex2 + 2) >>
        wallIndex3 == wallIndex2 + 3
        torusA == [i \in 1..2 |-> RI("torus", wallIndex3 + (i - 1))]
        wallIndex4 == wallIndex3 + 2
        torusB == [i \in 1..2 |-> RI("torus", wallIndex4 + (i - 1))]
        wallIndex5 == wallIndex4 + 2
        pyramid  == << RI("pyramid", wallIndex5) >>
        diamond  == << RI("diamond", wallIndex5 + 1) >>
        diamond1 == << RI("diamond1", wallIndex5 + 2) >>
        sofar == walls \o towers \o door \o leftWedge \o rightWedge \o torusA
                 \o torusB \o pyramid \o diamond \o diamond1
        grid == << RI("grid", Len(sofar)) >>
    IN  sofar \o grid

mAllRitems == BuildRenderItems

\* mOpaqueRitems holds every item of mAllRitems, in the same order.
mOpaqueRitems == mAllRitems

Items == 1 .. Len(mAllRitems)

ObjCBIndex(e) == mAllRitems[e].ObjCBIndex

World(e) == WorldOf(e)

\* ------------------------------------------------------- descriptor table
\* BuildDescriptorHeaps
objCount == Len(mOpaqueRitems)

NumDescriptors_NoPassBlock == objCount * gNumFrameResources
NumDescriptors == (objCount + 1) * gNumFrameResources

mPassCbvOffset_Unscaled == objCount
mPassCbvOffset == objCount * gNumFrameResources

\* DrawRenderItems: offset of the CBV of object index i for frame slot s.
CbvIndex_NoStride(s, i) == s + i
CbvIndex_Interleaved(s, i) == i * gNumFrameResources + s
CbvIndex(s, i) == s * objCount + i

\* Draw: offset of the pass CBV for frame slot s.
PassCbvIndex(s) == mPassCbvOffset + s

\* BuildFrameResources: every frame resource has one pass element and
\* mAllRitems.size() object elements.
ObjectCBElements == 0 .. (Len(mAllRitems) - 1)

\* The passCount given to every FrameResource, and its PassCB's elements.
PassCount == 1
PassCBElements == 0 .. (PassCount - 1)

\* BuildConstantBufferViews, first loop: the view created at heapIndex
\* frameIndex * objCount + i addresses element i of that frame's ObjectCB.
ObjectViews ==
    { << frameIndex * objCount + i,
         [kind |-> "object", frame |-> frameIndex, element |-> i] >> :
      frameIndex \in 0 .. (gNumFrameResources - 1), i \in 0 .. (objCount - 1) }

\* BuildConstantBufferViews, second loop: the view created at heapIndex
\* mPassCbvOffset + frameIndex addresses that frame's PassCB.
PassViews ==
    { << mPassCbvOffset + frameIndex,
         [kind |-> "pass", frame |-> frameIndex, element |-> 0] >> :
      frameIndex \in 0 .. (gNumFrameResources - 1) }

\* The descriptor heap after BuildConstantBufferViews: the pass views are
\* created last; a descriptor no loop reaches stays empty.
mCbvHeap ==
    [h \in 0 .. (NumDescriptors - 1) |->
        IF \E v \in PassViews : v[1] = h
           THEN (CHOOSE v \in PassViews : v[1] = h)[2]
           ELSE IF \E v \in ObjectViews : v[1] = h
                   THEN (CHOOSE v \in ObjectViews : v[1] = h)[2]
                   ELSE [kind |-> "empty", frame |-> 0, element |-> 0]]

\* ---------------------------------------------------------- shape geometry
\* The meshes BuildShapeGeometry generates, in the order their vertices and
\* indices are concatenated into the combined buffers.
MeshOrder == << "box", "cylinder", "grid", "rooftop", "door", "cone", "wedge",
                "torus", "pyramid", "diamond", "diamond1" >>
MeshNames == { MeshOrder[i] : i \in DOMAIN MeshOrder }

\* A GeometryGenerator::MeshData, by the sizes of its Vertices and Indices32
\* arrays (here those of a triangle fan over v vertices).
MeshData(v) == [Vertices |-> v, Indices32 |-> 3 * (v - 2)]
MeshSizes == { MeshData(v) : v \in 3 .. MaxMeshVertices }

SubmeshGeometry(indexCount, startIndexLocation, baseVertexLocation) ==
    [IndexCount |-> indexCount,
     StartIndexLocation |-> startIndexLocation,
     BaseVertexLocation |-> baseVertexLocation]

\* BuildShapeGeometry on generated meshes m: the offsets, the submeshes put
\* into DrawArgs and the sizes of the combined vertex and index arrays.
BuildShapeGeometry(m) ==
    LET box      == m["box"]
        door     == m["door"]
        cylinder == m["cylinder"]
        grid     == m["grid"]
        rooftop  == m["rooftop"]
        cone     == m["cone"]
        wedge    == m["wedge"]
        torus    == m["torus"]
        pyramid  == m["pyramid"]
        diamond  == m["diamond"]
        diamond1 == m["diamond1"]
        boxVertexOffset      == 0
        cylinderVertexOffset == box.Vertices
        gridVertexOffset     == cylinderVertexOffset + cylinder.Vertices
        roofVertexOffset     == gridVertexOffset + grid.Vertices
        doorVertexOffset     == boxVertexOffset + box.Vertices + cylinder.Vertices
                                   + grid.Vertices + rooftop.Vertices
        coneVertexOffset     == doorVertexOffset + door.Vertices
        wedgeVertexOffset    == coneVertexOffset + cone.Vertices
        torusVertexOffset    == wedgeVertexOffset + wedge.Vertices
        pyramidVertexOffset  == torusVertexOffset + torus.Vertices
        diamondVertexOffset  == pyramidVertexOffset + diamond.Vertices
        diamond1VertexOffset == diamondVertexOffset + diamond1.Vertices
        boxIndexOffset      == 0
        cylinderIndexOffset == box.Indices32
        gridIndexOffset     == cylinderIndexOffset + cylinder.Indices32
        roofIndexOffset     == gridIndexOffset + grid.Vertices
        doorIndexOffset     == boxIndexOffset + box.Indices32 + cylinder.Indices32
                                  + grid.Indices32 + rooftop.Indices32
        coneIndexOffset     == doorIndexOffset + door.Indices32
        wedgeIndexOffset    == coneIndexOffset + cone.Indices32
        torusIndexOffset    == wedgeIndexOffset + wedge.Indices32
        pyramidIndexOffset  == torusIndexOffset + torus.Indices32
        diamondIndexOffset  == pyramidIndexOffset + diamond.Indices32
        diamond1IndexOffset == diamondIndexOffset + diamond1.Indices32
        boxSubmesh      == SubmeshGeometry(box.Indices32, boxIndexOffset, boxVertexOffset)
        cylinderSubmesh == SubmeshGeometry(cylinder.Indices32, cylinderIndexOffset,
                                           cylinderVertexOffset)
        gridSubmesh     == SubmeshGeometry(grid.Indices32, gridIndexOffset, gridVertexOffset)
        roofSubmesh     == SubmeshGeometry(rooftop.Indices32, roofVertexOffset, roofVertexOffset)
        doorSubmesh     == SubmeshGeometry(door.Indices32, doorIndexOffset, doorVertexOffset)
        coneSubmesh     == SubmeshGeometry(cone.Indices32, coneIndexOffset, coneVertexOffset)
        wedgeSubmesh    == SubmeshGeometry(wedge.Indices32, wedgeIndexOffset, wedgeVertexOffset)
        torusSubmesh    == SubmeshGeometry(torus.Indices32, torusIndexOffset, torusVertexOffset)
        pyramidSubmesh  == SubmeshGeometry(pyramid.Indices32, pyramidIndexOffset,
                                           pyramidVertexOffset)
        diamondSubmesh  == SubmeshGeometry(diamond.Indices32, diamondIndexOffset,
                                           diamondVertexOffset)
        diamond1Submesh == SubmeshGeometry(diamond1.Indices32, diamond1IndexOffset,
                                           diamond1VertexOffset)
        totalVertexCount == box.Vertices + cylinder.Vertices + grid.Vertices
                               + rooftop.Vertices + door.Vertices + cone.Vertices
                               + wedge.Vertices + torus.Vertices + pyramid.Vertices
                               + diamond.Vertices + diamond1.Vertices
        totalIndexCount  == box.Indices32 + cylinder.Indices32 + grid.Indices32
                               + rooftop.Indices32 + door.Indices32 + cone.Indices32
                               + wedge.Indices32 + torus.Indices32 + pyramid.Indices32
                               + diamond.Indices32 + diamond1.Indices32
    IN  [Name |-> "shapeGeo",
         VertexCount |-> totalVertexCount,
         IndexCount |-> totalIndexCount,
         DrawArgs |-> [box |-> boxSubmesh, grid |-> gridSubmesh,
                       cylinder |-> cylinderSubmesh, rooftop |-> roofSubmesh,
                       door |-> doorSubmesh, cone |-> coneSubmesh,
                       wedge |-> wedgeSubmesh, torus |-> torusSubmesh,
                       pyramid |-> pyramidSubmesh, diamond |-> diamondSubmesh,
                       diamond1 |-> diamond1Submesh]]

\* The mesh whose Vertices array the copy loop of mesh n reads: its own,
\* except that the loop over diamond1 reads diamond.Vertices.
VertexSourceOf(n) == IF n = "diamond1" THEN "diamond" ELSE n

\* The reads of source vertex arrays made by the copy loops: << mesh, i >>
\* for every i below the size of the mesh the loop runs over.
VertexReads(m) ==
    UNION { { << VertexSourceOf(n), i >> : i \in 0 .. (m[n].Vertices - 1) } :
            n \in MeshNames }

OutOfBoundsReads(m) == { r \in VertexReads(m) : r[2] >= m[r[1]].Vertices }

\* What a read past the end of a vector yields when it does not fault:
\* whatever the heap holds there.
HeapGarbage == { << "heap", 0 >>, << "heap", 1 >> }

\* The Position of vertex i of generated mesh n stands for itself; read from
\* mesh src for a loop over mesh n, past the end it is oob.
ReadPosition(m, src, i, oob) == IF i < m[src].Vertices THEN << src, i >> ELSE oob

\* The section of the combined vertex array written by the loop over mesh n.
VertexSection(m, n, oob) ==
    [j \in 1 .. m[n].Vertices |->
        [Pos |-> ReadPosition(m, VertexSourceOf(n), j - 1, oob)]]

\* The combined vertex array after the loops over the first k meshes.
RECURSIVE BuildVerticesUpTo(_, _, _)
BuildVerticesUpTo(m, k, oob) ==
    IF k = 0 THEN << >>
             ELSE BuildVerticesUpTo(m, k - 1, oob) \o VertexSection(m, MeshOrder[k], oob)

\* BuildShapeGeometry: the vertices copied into VertexBufferCPU.
BuildVertices(m, oob) == BuildVerticesUpTo(m, Len(MeshOrder), oob)

\* The render item at position k of mAllRitems as BuildRenderItems fills it
\* in from the geometry geo.
RenderItemOf(k, geo) ==
    [World |-> World(k),
     ObjCBIndex |-> ObjCBIndex(k),
     Geo |-> geo.Name,
     IndexCount |-> geo.DrawArgs[mAllRitems[k].Shape].IndexCount,
     StartIndexLocation |-> geo.DrawArgs[mAllRitems[k].Shape].StartIndexLocation,
     BaseVertexLocation |-> geo.DrawArgs[mAllRitems[k].Shape].BaseVertexLocation]

\* What Initialize builds on the geometry: the render items, the opaque list
\* (positions in mAllRitems) and the descriptor addressing values.
BuildScene(geometries) ==
    [mAllRitems |-> [k \in Items |-> RenderItemOf(k, geometries["shapeGeo"])],
     mOpaqueRitems |-> [k \in Items |-> k],
     objCount |-> objCount,
     mPassCbvOffset |-> mPassCbvOffset]

\* Before Initialize: no render items, mPassCbvOffset = 0.
EmptyScene ==
    [mAllRitems |-> << >>, mOpaqueRitems |-> << >>, objCount |-> 0,
     mPassCbvOffset |-> 0]

\* The meshes of the runs that do not vary them.
DefaultMeshes == [n \in MeshNames |-> MeshData(MaxMeshVertices)]

\* ------------------------------------------------------------------ camera
\* Angles are in microradians, the radius in units of 0.005.
Pi == 3141593
\* XMConvertToRadians(0.25f * pixels): pixels * Pi / 720, rounded down; the
\* product is split so that it stays within the model checker's integers.
QuarterDegreesToRadians(pixels) ==
    pixels * (Pi \div 720) + (pixels * (Pi % 720)) \div 720

\* MathHelper::Clamp
Clamp_Unclamped(x, low, high) == x
Clamp(x, low, high) == IF x < low THEN low ELSE IF x > high THEN high ELSE x

\* 0.005f * pixels, in units of 0.005
PixelsToRadius(pixels) == pixels

MinPhi == 100000
MaxPhi == Pi - 100000
MinRadius == 600
MaxRadius == 3000

\* XMMatrixPerspectiveFovLH for a client area of size <<width, height>>: the
\* matrix is kept as the ratio of its two scale entries, m00 : m11 =
\* height : width; the identity has 1 : 1.
Identity4x4 == << 1, 1 >>
XMMatrixPerspectiveFovLH(size) == << size[2], size[1] >>

\* The client sizes a resize reports.
ClientSizes == { << 800, 600 >>, << 1280, 720 >> }

MousePositions == { << 0, 0 >>, << MouseStep, 0 >>, << 0, MouseStep >> }
MouseButtons == SUBSET { "MK_LBUTTON", "MK_RBUTTON" }

\* mLastMousePos has no initialiser: until OnMouseDown or OnMouseMove has
\* stored a position a read of it yields an indeterminate point.
Indeterminate == << >>
IndeterminatePoints == MousePositions \cup { << MouseStep, MouseStep >> }
ReadPoint(p) == IF p = Indeterminate THEN IndeterminatePoints ELSE { p }

\* ------------------------------------------------------------------- state
VARIABLES
    pc,                      \* where the CPU thread is
    frames,                  \* number of Update calls begun
    mCurrFrameResourceIndex,
    mCurrFrameResource,      \* the slot mCurrFrameResource points at, or nullptr
    usedSlots,               \* the slot each Update so far made current
    Fence,                   \* FrameResource::Fence of every slot
    mCurrentFence,
    gpuCompleted,            \* mFence->GetCompletedValue()
    gpuQueue,                \* mCommandQueue: work submitted, not yet done
    deviceLost,              \* the GPU has stopped for good
    eventHandle,             \* the handle of the wait in Update
    blocked,                 \* this Update took the wait branch
    NumFramesDirty,          \* RenderItem::NumFramesDirty of every item
    ObjectCB,                \* FrameResource::ObjectCB of every slot
    PassCB,                  \* FrameResource::PassCB of every slot
    mIsWireframe,
    exception,               \* the DxException that ended the run, if any
    ignored,                 \* native calls that failed and were not checked
    meshes,                  \* the meshes GeometryGenerator returns
    mGeometries,             \* the MeshGeometry objects by name
    VertexBufferCPU,         \* the vertices copied into shapeGeo's buffer
    scene,                   \* mAllRitems, mOpaqueRitems, descriptor addressing
    mTheta, mPhi, mRadius,   \* the orbit camera
    mLastMousePos,
    mProj,
    callbacks,               \* number of window callbacks handled
    submitted,               \* slots whose command list Draw has executed
    key                      \* the last GetAsyncKeyState('1') sample

vars == << pc, frames, mCurrFrameResourceIndex, mCurrFrameResource,
           usedSlots, Fence, mCurrentFence,
           gpuCompleted, gpuQueue, deviceLost, eventHandle, blocked,
           NumFramesDirty, ObjectCB, PassCB, mIsWireframe, exception, ignored,
           meshes, mGeometries, VertexBufferCPU, scene, mTheta, mPhi, mRadius,
           mLastMousePos,
           mProj, callbacks, submitted, key >>

built == << meshes, mGeometries, VertexBufferCPU, scene >>
camera == << mTheta, mPhi, mRadius, mLastMousePos, mProj >>

Unwritten == << >>

\* A FrameResource* : nullptr, or the address of mFrameResources[s].
nullptr == << >>
AddressOf(s) == << s >>

\* The members as the constructor and the member initialisers leave them.
Constructed ==
    /\ frames = 0
    /\ mCurrFrameResourceIndex = 0
    /\ mCurrFrameResource = nullptr
    /\ usedSlots = << >>
    /\ Fence = [s \in Slots |-> 0]
    /\ gpuQueue = << >>
    /\ deviceLost = FALSE
    /\ eventHandle = "none"
    /\ blocked = FALSE
    /\ NumFramesDirty = [e \in Items |-> InitNumFramesDirty]
    /\ ObjectCB = [s \in Slots |-> [i \in ObjectCBElements |-> Unwritten]]
    /\ PassCB = [s \in Slots |-> [i \in PassCBElements |-> 0]]
    /\ mIsWireframe = FALSE
    /\ exception = "none"
    /\ ignored = {}
    /\ mTheta = (3 * Pi) \div 2
    /\ mPhi = Pi \div 5
    /\ mRadius = MaxRadius
    /\ mLastMousePos = Indeterminate
    /\ mProj = Identity4x4
    /\ callbacks = 0
    /\ submitted = {}
    /\ key = 0

\* The state when Initialize has returned, for the default meshes.
Init ==
    /\ Constructed
    /\ pc = "update"
    /\ mCurrentFence \in 0 .. MaxInitFence
    /\ gpuCompleted = mCurrentFence
    /\ meshes = DefaultMeshes
    /\ mGeometries = [shapeGeo |-> BuildShapeGeometry(meshes)]
    /\ VertexBufferCPU \in { BuildVertices(meshes, oob) : oob \in HeapGarbage }
    /\ scene = BuildScene(mGeometries)

\* The state before Initialize, the generated meshes being any of M.
BeforeInitialize(M) ==
    /\ Constructed
    /\ pc = "initialize"
    /\ mCurrentFence = 0
    /\ gpuCompleted = 0
    /\ meshes \in M
    /\ mGeometries = << >>
    /\ VertexBufferCPU = << >>
    /\ scene = EmptyScene

\* Initialize: BuildShapeGeometry, BuildRenderItems, BuildFrameResources,
\* BuildDescriptorHeaps, BuildConstantBufferViews, then the queue is flushed,
\* which leaves mCurrentFence completed.
Initialize ==
    /\ pc = "initialize"
    /\ mGeometries' = [shapeGeo |-> BuildShapeGeometry(meshes)]
    /\ \E oob \in HeapGarbage : VertexBufferCPU' = BuildVertices(meshes, oob)
    /\ scene' = BuildScene(mGeometries')
    /\ \E f \in 0 .. MaxInitFence : mCurrentFence' = f /\ gpuCompleted' = f
    /\ pc' = "update"
    /\ UNCHANGED << frames, mCurrFrameResourceIndex, mCurrFrameResource,
                    usedSlots, Fence, gpuQueue, deviceLost, eventHandle, blocked,
                    NumFramesDirty, ObjectCB, PassCB, mIsWireframe, exception,
                    ignored, meshes, camera, callbacks, submitted, key >>

\* BuildShapeGeometry reads past the end of a vertex array and the read
\* faults: the process ends inside Initialize.
InitializeFaults ==
    /\ pc = "initialize"
    /\ OutOfBoundsReads(meshes) # {}
    /\ pc' = "crashed"
    /\ UNCHANGED << frames, mCurrFrameResourceIndex, mCurrFrameResource,
                    usedSlots, Fence, mCurrentFence, gpuCompleted, gpuQueue,
                    deviceLost, eventHandle, blocked, NumFramesDirty, ObjectCB,
                    PassCB, mIsWireframe, exception, ignored, built, camera,
                    callbacks, submitted, key >>

\* ------------------------------------------------------------------ Update
\* The circular advance of the frame resource index.
NextFrameResourceIndex_Stuck(i) == i
NextFrameResourceIndex_ByTwo(i) == (i + 2) % gNumFrameResources
NextFrameResourceIndex(i) == (i + 1) % gNumFrameResources

\* The test that decides whether Update waits for the GPU.
NeedsWait_Never(fence, completed) == FALSE
NeedsWait_Inclusive(fence, completed) == fence # 0 /\ completed <= fence
NeedsWait(fence, completed) == fence # 0 /\ completed < fence

\* GetAsyncKeyState returns a 16-bit value: bit 15 is set while the key is
\* down, bit 0 if it was pressed since the previous call.
AsyncKeyStates == { 0, 1, 32768, 32769 }

\* OnKeyboardInput: key & 0x8000
KeyIsDown_AnyBit(keyState) == keyState # 0
KeyIsDown(keyState) == (keyState \div 32768) % 2 = 1

\* OnKeyboardInput, UpdateCamera, the advance of the ring and the fence test.
UpdateBegin(keyState) ==
    /\ pc = "update"
    /\ frames < MaxFrames
    /\ frames' = frames + 1
    /\ key' = keyState
    /\ mIsWireframe' = IF KeyIsDown(key') THEN TRUE ELSE FALSE
    /\ mCurrFrameResourceIndex' = NextFrameResourceIndex(mCurrFrameResourceIndex)
    /\ mCurrFrameResource' = AddressOf(mCurrFrameResourceIndex')
    /\ usedSlots' = Append(usedSlots, mCurrFrameResourceIndex')
    /\ LET wait == NeedsWait(Fence[mCurrFrameResourceIndex'], gpuCompleted)
       IN  /\ blocked' = wait
           /\ pc' = IF wait THEN "wait" ELSE "write"
    /\ UNCHANGED << Fence, mCurrentFence, gpuCompleted, gpuQueue, deviceLost,
                    eventHandle, NumFramesDirty, ObjectCB, PassCB, exception,
                    ignored, built, camera, callbacks, submitted >>

\* CreateEventEx (unchecked: a failure leaves a null handle) and
\* ThrowIfFailed(SetEventOnCompletion).
UpdateArmWait(created, armed) ==
    /\ pc = "wait"
    /\ IF armed
          THEN /\ pc' = "blocked"
               /\ eventHandle' = IF created THEN "valid" ELSE "null"
               /\ exception' = exception
          ELSE /\ pc' = "fatal"
               /\ eventHandle' = eventHandle
               /\ exception' = "SetEventOnCompletion"
    /\ ignored' = IF created THEN ignored ELSE ignored \cup {"CreateEventEx"}
    /\ UNCHANGED << mCurrFrameResource, usedSlots, built, camera, callbacks, submitted, key >>
    /\ UNCHANGED << frames, mCurrFrameResourceIndex, Fence, mCurrentFence,
                    gpuCompleted, gpuQueue, deviceLost, blocked, NumFramesDirty,
                    ObjectCB, PassCB, mIsWireframe >>

\* What ends the wait: the fence has reached the value waited for.  (With a
\* null handle SetEventOnCompletion itself returns only then.)
WaitSatisfied_Timeout(fence, completed) == TRUE
WaitSatisfied(fence, completed) == completed >= fence

\* WaitForSingleObject(eventHandle, INFINITE) returns; CloseHandle.  Neither
\* result is checked; both fail on a null handle.
UpdateResume ==
    /\ pc = "blocked"
    /\ WaitSatisfied(Fence[mCurrFrameResourceIndex], gpuCompleted)
    /\ pc' = "write"
    /\ eventHandle' = "none"
    /\ ignored' = IF eventHandle = "null"
                     THEN ignored \cup {"WaitForSingleObject", "CloseHandle"}
                     ELSE ignored
    /\ UNCHANGED << mCurrFrameResource, usedSlots, built, camera, callbacks, submitted, key >>
    /\ UNCHANGED << frames, mCurrFrameResourceIndex, Fence, mCurrentFence,
                    gpuCompleted, gpuQueue, deviceLost, blocked, NumFramesDirty,
                    ObjectCB, PassCB, mIsWireframe, exception >>

\* UploadBuffer::CopyData(elementIndex, data) on a buffer of the given elements.
CopyData(cb, elementIndex, data) ==
    IF elementIndex \in DOMAIN cb THEN [cb EXCEPT ![elementIndex] = data] ELSE cb

\* The constants written for an item: the transpose of its World.
ObjectConstantsOf(e) == XMMatrixTranspose(World(e))

\* The dirty test and the decrement of UpdateObjectCBs.
IsDirty_Always(n) == TRUE
IsDirty(n) == n > 0

DecrementDirty_ByTwo(n) == n - 2
DecrementDirty(n) == n - 1

\* UpdateObjectCBs: the loop over mAllRitems from position k on, on the
\* current slot's object buffer cb and the dirty counters nfd.
RECURSIVE UpdateObjectCBsFrom(_, _, _)
UpdateObjectCBsFrom(k, cb, nfd) ==
    IF k > Len(mAllRitems)
       THEN [cb |-> cb, nfd |-> nfd]
       ELSE IF IsDirty(nfd[k])
               THEN UpdateObjectCBsFrom(k + 1,
                        CopyData(cb, ObjCBIndex(k), ObjectConstantsOf(k)),
                        [nfd EXCEPT ![k] = DecrementDirty(nfd[k])])
               ELSE UpdateObjectCBsFrom(k + 1, cb, nfd)

UpdateObjectCBs(cb, nfd) == UpdateObjectCBsFrom(1, cb, nfd)

\* UpdateMainPassCB: the pass constants of this frame (the frame's time
\* stands for the whole record).
MainPassCB(time) == time

\* UpdateMainPassCB on the current slot's pass buffer: CopyData(0, mMainPassCB).
UpdateMainPassCB_Skipped(cb, time) == cb
UpdateMainPassCB(cb, time) == CopyData(cb, 0, MainPassCB(time))

\* UpdateObjectCBs and UpdateMainPassCB on the current frame resource.
UpdateWrite ==
    /\ pc = "write"
    /\ LET r == UpdateObjectCBs(ObjectCB[mCurrFrameResourceIndex], NumFramesDirty)
       IN  /\ ObjectCB' = [ObjectCB EXCEPT ![mCurrFrameResourceIndex] = r.cb]
           /\ NumFramesDirty' = r.nfd
    /\ PassCB' = [PassCB EXCEPT ![mCurrFrameResourceIndex] =
                      UpdateMainPassCB(PassCB[mCurrFrameResourceIndex], frames)]
    /\ pc' = "draw"
    /\ UNCHANGED << mCurrFrameResource, usedSlots, built, camera, callbacks, submitted, key >>
    /\ UNCHANGED << frames, mCurrFrameResourceIndex, Fence, mCurrentFence,
                    gpuCompleted, gpuQueue, deviceLost, eventHandle, blocked,
                    mIsWireframe, exception, ignored >>

\* -------------------------------------------------------------------- Draw
\* The calls of Draw wrapped in ThrowIfFailed, in program order.
CheckedDrawCalls == << "CmdListAlloc.Reset", "CommandList.Reset",
                       "CommandList.Close", "SwapChain.Present" >>

\* The value Draw records in the slot and signals: ++mCurrentFence.
NextFence_Stale(f) == f
NextFence(f) == f + 1

\* DrawRenderItems: the object CBV bound to root slot 0 for every item of
\* mOpaqueRitems while frame slot s is current.
DrawRenderItems(s) ==
    [e \in 1 .. Len(mOpaqueRitems) |-> CbvIndex(s, mOpaqueRitems[e].ObjCBIndex)]

\* The pipeline state Draw resets the command list with.
PsoOf(wireframe) == IF wireframe THEN "opaque_wireframe" ELSE "opaque"

\* A recorded command list of frame slot s (arg): its pipeline state, the
\* pass CBV bound to root slot 1 and the object CBVs bound to root slot 0.
ExecEntry(s) == [op |-> "exec", arg |-> s, pso |-> PsoOf(mIsWireframe),
                 passCbv |-> PassCbvIndex(s), objCbv |-> DrawRenderItems(s)]

\* A Signal(mFence, v) on the queue.
SignalEntry(v) == [op |-> "signal", arg |-> v]

\* A checked call of Draw fails: the DxException leaves Draw.  Present comes
\* after ExecuteCommandLists, so the frame's commands are already queued.
DrawThrows(failing) ==
    /\ pc = "draw"
    /\ pc' = "fatal"
    /\ exception' = failing
    /\ gpuQueue' = IF failing = "SwapChain.Present"
                      THEN Append(gpuQueue, ExecEntry(mCurrFrameResourceIndex))
                      ELSE gpuQueue
    /\ submitted' = IF failing = "SwapChain.Present"
                       THEN submitted \cup { mCurrFrameResourceIndex }
                       ELSE submitted
    /\ UNCHANGED << mCurrFrameResource, usedSlots, built, camera, callbacks, key >>
    /\ UNCHANGED << frames, mCurrFrameResourceIndex, Fence, mCurrentFence,
                    gpuCompleted, deviceLost, eventHandle, blocked,
                    NumFramesDirty, ObjectCB, PassCB, mIsWireframe, ignored >>

\* Draw with every checked call succeeding: the allocator of the current
\* slot is reset, the frame is recorded and submitted, the slot's Fence is set
\* to ++mCurrentFence and the queue is asked to signal it (result unchecked).
Draw(signalOk) ==
    /\ pc = "draw"
    /\ mCurrentFence' = NextFence(mCurrentFence)
    /\ Fence' = [Fence EXCEPT ![mCurrFrameResourceIndex] = mCurrentFence']
    /\ gpuQueue' = LET q == Append(gpuQueue, ExecEntry(mCurrFrameResourceIndex))
                   IN  IF signalOk THEN Append(q, SignalEntry(mCurrentFence'))
                                   ELSE q
    /\ ignored' = IF signalOk THEN ignored ELSE ignored \cup {"Signal"}
    /\ pc' = "update"
    /\ submitted' = submitted \cup { mCurrFrameResourceIndex }
    /\ UNCHANGED << mCurrFrameResource, usedSlots, built, camera, callbacks, key >>
    /\ UNCHANGED << frames, mCurrFrameResourceIndex, gpuCompleted, deviceLost,
                    eventHandle, blocked, NumFramesDirty, ObjectCB, PassCB,
                    mIsWireframe, exception >>

\* --------------------------------------------------------------------- GPU
\* The GPU finishes the oldest entry of the queue: a command list, or a
\* Signal, which sets the fence's completed value.
GpuStep ==
    /\ ~deviceLost
    /\ gpuQueue # << >>
    /\ gpuCompleted' = IF Head(gpuQueue).op = "signal"
                          THEN Head(gpuQueue).arg
                          ELSE gpuCompleted
    /\ gpuQueue' = Tail(gpuQueue)
    /\ UNCHANGED << mCurrFrameResource, usedSlots, built, camera, callbacks, submitted, key >>
    /\ UNCHANGED << pc, frames, mCurrFrameResourceIndex, Fence, mCurrentFence,
                    deviceLost, eventHandle, blocked, NumFramesDirty, ObjectCB,
                    PassCB, mIsWireframe, exception, ignored >>

\* The device is lost: the GPU makes no further progress.
DeviceLost ==
    /\ ~deviceLost
    /\ pc # "fatal"
    /\ deviceLost' = TRUE
    /\ UNCHANGED << mCurrFrameResource, usedSlots, built, camera, callbacks, submitted, key >>
    /\ UNCHANGED << pc, frames, mCurrFrameResourceIndex, Fence, mCurrentFence,
                    gpuCompleted, gpuQueue, eventHandle, blocked, NumFramesDirty,
                    ObjectCB, PassCB, mIsWireframe, exception, ignored >>

\* --------------------------------------------------------- window callbacks
\* The message loop dispatches a callback between two frames.
CallbackDue == pc = "update"

\* OnResize: the base class resizes the swap chain to the new client size;
\* the projection matrix is recomputed for the new aspect ratio.
OnResize_RebuildsScene(size) ==
    /\ CallbackDue
    /\ callbacks' = callbacks + 1
    /\ mProj' = XMMatrixPerspectiveFovLH(size)
    /\ scene' = [scene EXCEPT !.mAllRitems = @ \o @]
    /\ UNCHANGED << pc, frames, mCurrFrameResourceIndex, mCurrFrameResource,
                    usedSlots, Fence, mCurrentFence, gpuCompleted, gpuQueue,
                    deviceLost, eventHandle, blocked, NumFramesDirty, ObjectCB,
                    PassCB, mIsWireframe, exception, ignored, submitted, key, meshes,
                    mGeometries, VertexBufferCPU, mTheta, mPhi, mRadius,
                    mLastMousePos >>

OnResize(size) ==
    /\ CallbackDue
    /\ callbacks' = callbacks + 1
    /\ mProj' = XMMatrixPerspectiveFovLH(size)
    /\ UNCHANGED << pc, frames, mCurrFrameResourceIndex, mCurrFrameResource,
                    usedSlots, Fence, mCurrentFence, gpuCompleted, gpuQueue,
                    deviceLost, eventHandle, blocked, NumFramesDirty, ObjectCB,
                    PassCB, mIsWireframe, exception, ignored, submitted, key, built,
                    mTheta,
                    mPhi, mRadius, mLastMousePos >>

OnMouseDown(btnState, x, y) ==
    /\ CallbackDue
    /\ callbacks' = callbacks + 1
    /\ mLastMousePos' = << x, y >>
    /\ UNCHANGED << pc, frames, mCurrFrameResourceIndex, mCurrFrameResource,
                    usedSlots, Fence, mCurrentFence, gpuCompleted, gpuQueue,
                    deviceLost, eventHandle, blocked, NumFramesDirty, ObjectCB,
                    PassCB, mIsWireframe, exception, ignored, submitted, key, built,
                    mTheta,
                    mPhi, mRadius, mProj >>

\* OnMouseUp only releases the mouse capture.
OnMouseUp(btnState, x, y) ==
    /\ CallbackDue
    /\ callbacks' = callbacks + 1
    /\ UNCHANGED << pc, frames, mCurrFrameResourceIndex, mCurrFrameResource,
                    usedSlots, Fence, mCurrentFence, gpuCompleted, gpuQueue,
                    deviceLost, eventHandle, blocked, NumFramesDirty, ObjectCB,
                    PassCB, mIsWireframe, exception, ignored, submitted, key, built,
                    camera >>

OnMouseMove(btnState, x, y) ==
    /\ CallbackDue
    /\ callbacks' = callbacks + 1
    /\ IF "MK_LBUTTON" \in btnState
          THEN \E last \in ReadPoint(mLastMousePos) :
               LET dx == QuarterDegreesToRadians(x - last[1])
                   dy == QuarterDegreesToRadians(y - last[2])
               IN  /\ mTheta' = mTheta + dx
                   /\ mPhi' = Clamp(mPhi + dy, MinPhi, MaxPhi)
                   /\ mRadius' = mRadius
          ELSE IF "MK_RBUTTON" \in btnState
                  THEN \E last \in ReadPoint(mLastMousePos) :
                       LET dx == PixelsToRadius(x - last[1])
                           dy == PixelsToRadius(y - last[2])
                       IN  /\ mRadius' = Clamp(mRadius + (dx - dy), MinRadius, MaxRadius)
                           /\ mTheta' = mTheta
                           /\ mPhi' = mPhi
                  ELSE UNCHANGED << mTheta, mPhi, mRadius >>
    /\ mLastMousePos' = << x, y >>
    /\ UNCHANGED << pc, frames, mCurrFrameResourceIndex, mCurrFrameResource,
                    usedSlots, Fence, mCurrentFence, gpuCompleted, gpuQueue,
                    deviceLost, eventHandle, blocked, NumFramesDirty, ObjectCB,
                    PassCB, mIsWireframe, exception, ignored, submitted, key, built,
                    mProj >>

\* ----------------------------------------------------------- specification
CpuStep ==
    \/ \E keyState \in AsyncKeyStates : UpdateBegin(keyState)
    \/ \E created, armed \in BOOLEAN : UpdateArmWait(created, armed)
    \/ UpdateResume
    \/ UpdateWrite
    \/ \E i \in 1 .. Len(CheckedDrawCalls) : DrawThrows(CheckedDrawCalls[i])
    \/ \E signalOk \in BOOLEAN : Draw(signalOk)

Next == CpuStep \/ GpuStep \/ DeviceLost

Spec == Init /\ [][Next]_vars

\* The CPU thread runs whenever it can and a working GPU drains its queue.
FairSpec == Spec /\ WF_vars(CpuStep) /\ WF_vars(GpuStep)

\* Initialize alone, over every combination of generated mesh sizes.
GeoInit == BeforeInitialize([MeshNames -> MeshSizes])

GeoNext == Initialize \/ InitializeFaults

GeoSpec == GeoInit /\ [][GeoNext]_vars

\* The application from before Initialize on, with a device on which no
\* call fails: the frames, the GPU and the window callbacks.
SceneInit == BeforeInitialize({DefaultMeshes})

Callback ==
    \/ \E size \in ClientSizes : OnResize(size)
    \/ \E btnState \in MouseButtons : \E p \in MousePositions :
          \/ OnMouseDown(btnState, p[1], p[2])
          \/ OnMouseUp(btnState, p[1], p[2])
          \/ OnMouseMove(btnState, p[1], p[2])

SceneNext ==
    \/ Initialize
    \/ \E keyState \in AsyncKeyStates : frames < SceneFrames /\ UpdateBegin(keyState)
    \/ UpdateArmWait(TRUE, TRUE)
    \/ UpdateResume
    \/ UpdateWrite
    \/ Draw(TRUE)
    \/ GpuStep
    \/ (callbacks < MaxCallbacks /\ Callback)

SceneSpec == SceneInit /\ [][SceneNext]_vars

\* The mouse alone, after Initialize: presses, releases and moves between
\* nearby positions and across the window.
DragPositions == MousePositions \cup { << LongDrag, 0 >>, << 0, LongDrag >> }

CameraNext ==
    \/ \E btnState \in MouseButtons : \E p \in DragPositions :
          callbacks < MaxCameraEvents /\ OnMouseDown(btnState, p[1], p[2])
    \/ \E btnState \in MouseButtons : \E p \in DragPositions :
          callbacks < MaxCameraEvents /\ OnMouseUp(btnState, p[1], p[2])
    \/ \E btnState \in MouseButtons : \E p \in DragPositions :
          callbacks < MaxCameraEvents /\ OnMouseMove(btnState, p[1], p[2])

CameraSpec == Init /\ [][CameraNext]_vars

\* ------------------------------------------------------------ definitions
\* The command lists submitted and not yet finished by the GPU.
InFlight == { i \in DOMAIN gpuQueue : gpuQueue[i].op = "exec" }

cur == mCurrFrameResourceIndex

\* ------------------------------------------------------------------ claims

\* C1: whenever Update is about to write constant data into the current slot
\* (UpdateObjectCBs / UpdateMainPassCB), the fence value recorded in that
\* slot is at most the fence value the GPU has completed.
C1_WriteOnlyCompletedSlot ==
    pc = "write" => Fence[cur] <= gpuCompleted

\* C1 witness: past the first round of the ring, an Update that had to wait
\* for its slot is about to write into it.
C1_Witness ==
    /\ pc = "write"
    /\ frames > gNumFrameResources
    /\ blocked
    /\ Fence[cur] # 0

\* C2: whenever Draw is about to reset the current slot's command allocator,
\* the GPU has finished every command list recorded with that allocator: no
\* command list of the current slot is still in the queue.
C2_ResetOnlyIdleAllocator ==
    pc = "draw" => \A i \in InFlight : gpuQueue[i].arg # cur

\* C2 witness: Draw is about to reset the allocator of a slot that was
\* submitted before, while the GPU still works on other slots' frames.
C2_Witness ==
    /\ pc = "draw"
    /\ Fence[cur] # 0
    /\ InFlight # {}

\* C3: an item's dirty counter is 0 only in a state where the item's
\* transform has been written into the object buffer of every frame slot.
C3_ZeroOnlyAfterAllSlots ==
    \A e \in Items :
        NumFramesDirty[e] = 0 =>
            \A s \in Slots :
                ObjectCB[s][ObjCBIndex(e)] = XMMatrixTranspose(World(e))

\* C3 witness: some item's counter has reached 0.
C3_Witness ==
    \E e \in Items : NumFramesDirty[e] = 0

\* What the shader reads through object descriptor h: the element of the
\* object buffer that the view at h addresses.
SampledObject(h) ==
    IF h \in DOMAIN mCbvHeap /\ mCbvHeap[h].kind = "object"
       THEN ObjectCB[mCbvHeap[h].frame][mCbvHeap[h].element]
       ELSE Unwritten

\* C4: at every Draw the current slot's object buffer holds, at every item's
\* ObjCBIndex, that item's World transform (as the transposed matrix the
\* shader reads); and every frame submitted and not yet finished samples,
\* through the descriptors it bound, that transform for every item.
C4_DrawSeesCurrentWorld ==
    /\ pc = "draw" =>
          \A e \in Items : ObjectCB[cur][ObjCBIndex(e)] = XMMatrixTranspose(World(e))
    /\ \A i \in InFlight : \A e \in Items :
          SampledObject(gpuQueue[i].objCbv[e]) = XMMatrixTranspose(World(e))

\* C4 witness: a Draw of the first round of the ring (its slot was written
\* by this frame's Update) while an earlier frame is still in flight.
C4_Witness ==
    /\ pc = "draw"
    /\ frames = gNumFrameResources
    /\ InFlight # {}

\* The offsets computed by the addressing formula, over every (slot, item)
\* pair: pairwise different, and all of them and the pass offsets below the
\* heap's descriptor count.
CbvOffsetsInjectiveAndInHeap ==
    /\ \A s1, s2 \in Slots : \A e1, e2 \in Items :
          CbvIndex(s1, ObjCBIndex(e1)) = CbvIndex(s2, ObjCBIndex(e2))
              => (s1 = s2 /\ e1 = e2)
    /\ \A s \in Slots : \A e \in Items :
          CbvIndex(s, ObjCBIndex(e)) \in 0 .. (NumDescriptors - 1)
    /\ \A s \in Slots : PassCbvIndex(s) \in 0 .. (NumDescriptors - 1)

\* The object descriptors bound by the command list at position i of the queue.
BoundObjCbvs(i) == { gpuQueue[i].objCbv[e] : e \in Items }

\* C5: the object descriptor offset slot * objCount + ObjCBIndex is injective
\* over (slot, item) pairs; every such offset and every pass offset
\* mPassCbvOffset + slot is below the heap's descriptor count; and the
\* command lists in flight bind offsets that are in the heap, one per item,
\* and shared by no two slots.
C5_DescriptorOffsets ==
    /\ CbvOffsetsInjectiveAndInHeap
    /\ \A i \in InFlight :
          /\ gpuQueue[i].passCbv \in 0 .. (NumDescriptors - 1)
          /\ BoundObjCbvs(i) \subseteq 0 .. (NumDescriptors - 1)
          /\ Cardinality(BoundObjCbvs(i)) = Len(mOpaqueRitems)
    /\ \A i, j \in InFlight :
          gpuQueue[i].arg # gpuQueue[j].arg
              => BoundObjCbvs(i) \cap BoundObjCbvs(j) = {}

\* C5 witness: command lists of two different slots are in flight, each
\* with its object and pass descriptors bound.
C5_Witness ==
    \E i, j \in InFlight : gpuQueue[i].arg # gpuQueue[j].arg

\* C6: having advanced to the next slot, Update blocks if and only if the
\* slot's recorded fence is greater than the GPU's completed value; a
\* blocked Update resumes only once the completed value has reached the
\* slot's fence.
C6_BlocksIffFenceAhead ==
    [][ /\ (pc = "update" /\ pc' # "update") =>
              /\ pc' \in {"wait", "write"}
              /\ (pc' = "wait") <=> (Fence[cur'] > gpuCompleted)
        /\ (pc \in {"wait", "blocked"} /\ pc' = "write") =>
              gpuCompleted >= Fence[cur]
      ]_vars

\* C6 witness: the CPU is blocked in the wait and the GPU has not yet
\* reached the slot's fence.
C6_Witness ==
    /\ pc = "blocked"
    /\ eventHandle = "valid"
    /\ gpuCompleted < Fence[cur]

\* C7: while the CPU writes a slot (from the end of the fence check until
\* the submission in Draw) at most N-1 = 2 submitted frames are unfinished.
C7_AtMostTwoInFlight ==
    pc \in {"write", "draw"} => Cardinality(InFlight) <= 2

\* C7 witness: exactly 2 frames in flight while the CPU writes a slot it did
\* not have to wait for.
C7_Witness ==
    /\ pc \in {"write", "draw"}
    /\ Cardinality(InFlight) = 2
    /\ ~blocked
    /\ Fence[cur] # 0

\* C8: a wait of Update (in WaitForSingleObject, on a valid event) for a
\* fence value that the GPU will never reach (device lost) is not left
\* blocking forever: the application can still take a step, which is how
\* the failure would surface as the fatal state.
C8_LostWaitIsFatal ==
    (/\ pc = "blocked"
     /\ eventHandle = "valid"
     /\ deviceLost
     /\ gpuCompleted < Fence[cur]) => ENABLED Next

\* C9: no native call of the per-frame path fails without a DxException
\* ending the run: no failure is ignored.
C9_NoFailureIgnored ==
    ignored = {}

\* C10: in each UpdateObjectCBs call every item with a nonzero counter has
\* its World written at element ObjCBIndex of the current slot and its
\* counter decremented by 1; items with counter 0 keep it, and no other
\* element of the buffer changes.
C10_UpdateObjectCBs ==
    [][ (pc = "write" /\ pc' = "draw") =>
          /\ \A e \in Items :
                IF NumFramesDirty[e] # 0
                   THEN /\ ObjectCB'[cur][ObjCBIndex(e)] = XMMatrixTranspose(World(e))
                        /\ NumFramesDirty'[e] = NumFramesDirty[e] - 1
                   ELSE NumFramesDirty'[e] = 0
          /\ \A i \in ObjectCBElements :
                ObjectCB'[cur][i] # ObjectCB[cur][i] =>
                    \E e \in Items : NumFramesDirty[e] # 0 /\ ObjCBIndex(e) = i
          /\ \A s \in Slots \ {cur} : ObjectCB'[s] = ObjectCB[s]
      ]_vars

\* C10 witness: UpdateObjectCBs has just written every (dirty) item into the
\* second slot of the ring.
C10_Witness ==
    /\ pc = "draw"
    /\ \A e \in Items :
          /\ NumFramesDirty[e] = 1
          /\ ObjectCB[cur][ObjCBIndex(e)] = XMMatrixTranspose(World(e))

\* The Signal entries of the queue.
Signals == { i \in DOMAIN gpuQueue : gpuQueue[i].op = "signal" }

\* C11: every Draw raises mCurrentFence by exactly 1 and records the new
\* value in the current slot; the value is greater than every value recorded
\* in a slot, signalled on the queue or completed before; the frame's command
\* list is queued before the Signal, which carries the recorded value; and
\* the GPU's completed value never exceeds mCurrentFence.
C11_FenceMonotone ==
    /\ [](gpuCompleted <= mCurrentFence)
    /\ [][ (pc = "draw" /\ pc' = "update") =>
             /\ mCurrentFence' = mCurrentFence + 1
             /\ Fence'[cur] = mCurrentFence'
             /\ \A s \in Slots : Fence[s] < Fence'[cur]
             /\ \A i \in Signals : gpuQueue[i].arg < Fence'[cur]
             /\ gpuCompleted < Fence'[cur]
             /\ Len(gpuQueue') > Len(gpuQueue)
             /\ gpuQueue'[Len(gpuQueue) + 1].op = "exec"
             /\ gpuQueue'[Len(gpuQueue) + 1].arg = cur
             /\ \A i \in (Len(gpuQueue) + 1) .. Len(gpuQueue') :
                   gpuQueue'[i].op = "signal" =>
                       /\ i = Len(gpuQueue) + 2
                       /\ gpuQueue'[i].arg = Fence'[cur]
          ]_vars

\* C11 witness: a second Draw has just queued its command list followed by
\* the Signal of the value it recorded in the slot.
C11_Witness ==
    /\ pc = "update"
    /\ frames >= 2
    /\ Len(gpuQueue) >= 2
    /\ gpuQueue[Len(gpuQueue) - 1].op = "exec"
    /\ gpuQueue[Len(gpuQueue)].op = "signal"
    /\ gpuQueue[Len(gpuQueue)].arg = Fence[cur]

\* C12 as stated: three frame resources; the k-th Update uses slot k mod 3;
\* any 3 consecutive Updates use 3 distinct slots; the index is in 0..2 and
\* mCurrFrameResource ALWAYS points at slot mCurrFrameResourceIndex.
C12_Original ==
    /\ Cardinality(DOMAIN Fence) = 3
    /\ \A k \in DOMAIN usedSlots : usedSlots[k] = k % 3
    /\ \A k \in DOMAIN usedSlots :
          k + 2 <= Len(usedSlots) =>
              Cardinality({usedSlots[k], usedSlots[k + 1], usedSlots[k + 2]}) = 3
    /\ mCurrFrameResourceIndex \in 0 .. 2
    /\ mCurrFrameResource = AddressOf(mCurrFrameResourceIndex)

\* C12 amended: as above, but mCurrFrameResource points at slot
\* mCurrFrameResourceIndex from the first Update on; before the first Update
\* it is nullptr (while the index is 0).
C12_RoundRobin ==
    /\ Cardinality(DOMAIN Fence) = 3
    /\ \A k \in DOMAIN usedSlots : usedSlots[k] = k % 3
    /\ \A k \in DOMAIN usedSlots :
          k + 2 <= Len(usedSlots) =>
              Cardinality({usedSlots[k], usedSlots[k + 1], usedSlots[k + 2]}) = 3
    /\ mCurrFrameResourceIndex \in 0 .. 2
    /\ IF frames = 0
          THEN mCurrFrameResource = nullptr /\ mCurrFrameResourceIndex = 0
          ELSE mCurrFrameResource = AddressOf(mCurrFrameResourceIndex)

\* C12 witness: the ring has wrapped around: the 4th Update uses slot 1 again.
C12_Witness ==
    /\ Len(usedSlots) = 4
    /\ usedSlots[1] = 1
    /\ usedSlots[4] = 1
    /\ mCurrFrameResource = AddressOf(1)

\* The pass views are exactly the last gNumFrameResources descriptors of the
\* heap, and no object descriptor offset falls into that block.
PassBlockIsLastAndDisjoint ==
    /\ { h \in DOMAIN mCbvHeap : mCbvHeap[h].kind = "pass" }
          = (objCount * gNumFrameResources)
               .. (objCount * gNumFrameResources + gNumFrameResources - 1)
    /\ objCount * gNumFrameResources + gNumFrameResources - 1 = NumDescriptors - 1
    /\ \A s \in Slots : \A e \in Items :
          /\ CbvIndex(s, ObjCBIndex(e)) < objCount * gNumFrameResources
          /\ mCbvHeap[CbvIndex(s, ObjCBIndex(e))].kind = "object"

\* C13: the pass views occupy exactly the last N descriptors, disjoint from
\* every object descriptor; and every submitted command list binds, to root
\* slot 1, the descriptor at mPassCbvOffset + its slot, which addresses that
\* slot's own pass buffer.
C13_PassBlock ==
    /\ PassBlockIsLastAndDisjoint
    /\ \A i \in InFlight :
          /\ gpuQueue[i].passCbv = mPassCbvOffset + gpuQueue[i].arg
          /\ gpuQueue[i].passCbv \in DOMAIN mCbvHeap
          /\ mCbvHeap[gpuQueue[i].passCbv]
                = [kind |-> "pass", frame |-> gpuQueue[i].arg, element |-> 0]

\* C13 witness: a command list of slot 2 is in flight, with its pass
\* descriptor bound.
C13_Witness ==
    \E i \in InFlight : gpuQueue[i].arg = 2 /\ gpuQueue[i].passCbv = mPassCbvOffset + 2

\* C15: each Update writes this frame's pass constants once, to element 0
\* of the current slot's pass buffer; the object and pass buffers change only
\* in that step of Update, and only those of the current slot.
C15_UpdateWritesCurrentSlotOnly ==
    /\ [](pc = "draw" => PassCB[cur][0] = MainPassCB(frames))
    /\ [][ IF pc = "write" /\ pc' = "draw"
              THEN /\ PassCB'[cur] = [PassCB[cur] EXCEPT ![0] = MainPassCB(frames)]
                   /\ \A s \in Slots \ {cur} :
                         ObjectCB'[s] = ObjectCB[s] /\ PassCB'[s] = PassCB[s]
              ELSE ObjectCB' = ObjectCB /\ PassCB' = PassCB
          ]_vars

\* C15 witness: the 4th Update has written its pass constants into slot 1,
\* while slots 2 and 0 still hold those of the 2nd and 3rd frame.
C15_Witness ==
    /\ pc = "draw"
    /\ frames = 4
    /\ PassCB[1][0] = MainPassCB(4)
    /\ PassCB[2][0] = MainPassCB(2)
    /\ PassCB[0][0] = MainPassCB(3)

\* C16: with a GPU that keeps completing what was signalled (no device
\* loss), an Update that waits is always released: the value it waits for has
\* been signalled, so either the GPU has completed it or the queue still
\* holds a Signal that raises the completed value at least that far.
C16_WaitIsAlwaysReleased ==
    (/\ pc \in {"wait", "blocked"}
     /\ ~deviceLost
     /\ gpuCompleted < Fence[cur])
        => \E i \in Signals : gpuQueue[i].arg >= Fence[cur]

\* The indices BuildRenderItems assigns: pairwise distinct, exactly the set
\* 0..count-1 with count the number of render items, which is also objCount
\* and the element count of a frame resource's object buffer; none is -1.
ObjCBIndicesArePermutation ==
    /\ \A e1, e2 \in Items : ObjCBIndex(e1) = ObjCBIndex(e2) => e1 = e2
    /\ { ObjCBIndex(e) : e \in Items } = 0 .. (Len(mAllRitems) - 1)
    /\ \A e \in Items : ObjCBIndex(e) # -1
    /\ objCount = Len(mAllRitems)
    /\ ObjectCBElements = 0 .. (objCount - 1)

\* C17: the ObjCBIndex values of the render items are pairwise distinct and
\* form exactly 0..count-1, where count = number of render items = element
\* capacity of every frame resource's object buffer = objCount.
C17_ObjCBIndexPermutation ==
    /\ ObjCBIndicesArePermutation
    /\ \A s \in Slots : DOMAIN ObjectCB[s] = 0 .. (Len(mAllRitems) - 1)
    /\ DOMAIN NumFramesDirty = 1 .. objCount

\* C17 witness: the first Update has filled every element of slot 1's object
\* buffer, the last one (index count-1) with the transform of the grid, the
\* last item of the list.
C17_Witness ==
    /\ pc = "draw"
    /\ frames = 1
    /\ \A i \in ObjectCBElements : ObjectCB[cur][i] # Unwritten
    /\ mAllRitems[Len(mAllRitems)].Shape = "grid"
    /\ ObjectCB[cur][Len(mAllRitems) - 1] = XMMatrixTranspose(World(Len(mAllRitems)))

\* The frame slots whose element for item e does not hold e's transform yet.
SlotsMissing(e) ==
    { s \in Slots : ObjectCB[s][ObjCBIndex(e)] # XMMatrixTranspose(World(e)) }

\* C18: every dirty counter is in 0..N and equals the number of frame slots
\* whose element for the item has not received the item's transform; a
\* counter never increases; after N Updates every counter is 0, and the
\* Updates after that write no object constants.
C18_DirtyCounter ==
    /\ [](\A e \in Items :
             /\ NumFramesDirty[e] \in 0 .. gNumFrameResources
             /\ NumFramesDirty[e] = Cardinality(SlotsMissing(e)))
    /\ []((frames > gNumFrameResources
             \/ (frames = gNumFrameResources /\ pc \in {"draw", "update"}))
          => \A e \in Items : NumFramesDirty[e] = 0)
    /\ [][ /\ \A e \in Items : NumFramesDirty'[e] <= NumFramesDirty[e]
           /\ (pc = "write" /\ frames > gNumFrameResources) => ObjectCB' = ObjectCB
         ]_vars

\* C18 witness: the Update after the N-th has run UpdateObjectCBs with every
\* counter at 0.
C18_Witness ==
    /\ pc = "draw"
    /\ frames = gNumFrameResources + 1
    /\ \A e \in Items : NumFramesDirty[e] = 0 /\ SlotsMissing(e) = {}

\* For every slot s and item e the view BuildConstantBufferViews created at
\* s * objCount + ObjCBIndex(e) addresses element ObjCBIndex(e) of slot s's
\* object buffer, and the offset DrawRenderItems computes is that heap index.
ViewsMatchAddressing ==
    \A s \in Slots : \A e \in Items :
        /\ CbvIndex(s, ObjCBIndex(e)) \in DOMAIN mCbvHeap
        /\ mCbvHeap[CbvIndex(s, ObjCBIndex(e))]
              = [kind |-> "object", frame |-> s, element |-> ObjCBIndex(e)]
        /\ DrawRenderItems(s)[e] = s * objCount + ObjCBIndex(e)

\* C20: BuildConstantBufferViews, DrawRenderItems and UpdateObjectCBs agree
\* on one (slot, object) -> element mapping: the descriptor a command list of
\* slot s binds for item e addresses element ObjCBIndex(e) of slot s's object
\* buffer, and that is the element UpdateObjectCBs writes for e when s is
\* current.
C20_OneMapping ==
    /\ [](/\ ViewsMatchAddressing
          /\ \A i \in InFlight : \A e \in Items :
                mCbvHeap[gpuQueue[i].objCbv[e]]
                   = [kind |-> "object", frame |-> gpuQueue[i].arg,
                      element |-> ObjCBIndex(e)])
    /\ [][ (pc = "write" /\ pc' = "draw") =>
              \A e \in Items :
                 LET v == mCbvHeap[DrawRenderItems(cur)[e]]
                 IN  NumFramesDirty[e] # 0 =>
                        /\ ObjectCB[v.frame][v.element] # ObjectConstantsOf(e)
                        /\ ObjectCB'[v.frame][v.element] = ObjectConstantsOf(e)
         ]_vars

\* C20 witness: a command list of slot 1 is in flight whose descriptor for
\* the last item (the grid) addresses element count-1 of slot 1, which holds
\* the grid's transform.
C20_Witness ==
    \E i \in InFlight :
        /\ gpuQueue[i].arg = 1
        /\ mCbvHeap[gpuQueue[i].objCbv[Len(mAllRitems)]]
              = [kind |-> "object", frame |-> 1, element |-> objCount - 1]
        /\ SampledObject(gpuQueue[i].objCbv[Len(mAllRitems)])
              = ObjectConstantsOf(Len(mAllRitems))

\* C14: for all sizes of the eleven meshes, every submesh of DrawArgs has
\* its index range [StartIndexLocation, StartIndexLocation + IndexCount)
\* within the combined index buffer and BaseVertexLocation plus its mesh's
\* vertex count within the combined vertex buffer, and the index ranges of
\* two different submeshes do not overlap.
C14_SubmeshRangesInBounds ==
    mGeometries # << >> =>
        LET geo == mGeometries["shapeGeo"]
            Start(n) == geo.DrawArgs[n].StartIndexLocation
            End(n) == geo.DrawArgs[n].StartIndexLocation + geo.DrawArgs[n].IndexCount
        IN  /\ DOMAIN geo.DrawArgs = MeshNames
            /\ \A n \in MeshNames :
                  /\ Start(n) >= 0
                  /\ End(n) <= geo.IndexCount
                  /\ geo.DrawArgs[n].BaseVertexLocation + meshes[n].Vertices
                        <= geo.VertexCount
            /\ \A n1, n2 \in MeshNames :
                  n1 # n2 => (End(n1) <= Start(n2) \/ End(n2) <= Start(n1))

\* C19: the scene and the descriptor addressing are built once, in
\* Initialize: after it, Update, Draw, OnResize and the mouse and keyboard
\* callbacks leave the render-item list, every item's World, ObjCBIndex and
\* draw range, the mesh geometry, mPassCbvOffset and the object count as
\* Initialize built them.
C19_SceneBuiltOnce ==
    /\ [](pc # "initialize" =>
             /\ mGeometries = [shapeGeo |-> BuildShapeGeometry(meshes)]
             /\ scene = BuildScene(mGeometries)
             /\ scene.objCount = Len(scene.mOpaqueRitems)
             /\ scene.mPassCbvOffset = scene.objCount * gNumFrameResources)
    /\ [][ pc # "initialize" =>
              /\ scene' = scene
              /\ mGeometries' = mGeometries
              /\ VertexBufferCPU' = VertexBufferCPU ]_vars

\* C19 witness: after Initialize a frame was drawn, the window was resized,
\* and a later frame, in the wireframe mode set by the keyboard, has been
\* updated and is about to be drawn, with the scene as built.
C19_Witness ==
    /\ pc = "draw"
    /\ frames >= 2
    /\ callbacks >= 1
    /\ mProj # Identity4x4
    /\ mIsWireframe
    /\ scene = BuildScene(mGeometries)
    /\ Len(scene.mAllRitems) = Len(mAllRitems)

\* The number of vertices / indices of the meshes concatenated before
\* position k of MeshOrder.
RECURSIVE VerticesBefore(_, _)
VerticesBefore(m, k) ==
    IF k <= 1 THEN 0 ELSE VerticesBefore(m, k - 1) + m[MeshOrder[k - 1]].Vertices

RECURSIVE IndicesBefore(_, _)
IndicesBefore(m, k) ==
    IF k <= 1 THEN 0 ELSE IndicesBefore(m, k - 1) + m[MeshOrder[k - 1]].Indices32

\* C21: for all sizes of the generated meshes, every submesh's
\* StartIndexLocation and BaseVertexLocation are the positions at which its
\* mesh's indices and vertices begin in the combined buffers: the prefix sums
\* of the index and vertex counts of the meshes concatenated before it.
C21_OffsetsArePrefixSums ==
    mGeometries # << >> =>
        \A k \in DOMAIN MeshOrder :
            LET submesh == mGeometries["shapeGeo"].DrawArgs[MeshOrder[k]]
            IN  /\ submesh.StartIndexLocation = IndicesBefore(meshes, k)
                /\ submesh.BaseVertexLocation = VerticesBefore(meshes, k)
                /\ submesh.IndexCount = meshes[MeshOrder[k]].Indices32

\* The vertices of mesh n, in order.
OwnVertices(m, n) == [j \in 1 .. m[n].Vertices |-> [Pos |-> << n, j - 1 >>]]

\* The concatenation of the first k meshes' own vertices.
RECURSIVE ConcatenatedUpTo(_, _)
ConcatenatedUpTo(m, k) ==
    IF k = 0 THEN << >> ELSE ConcatenatedUpTo(m, k - 1) \o OwnVertices(m, MeshOrder[k])

\* C22: the combined vertex array is the concatenation, in order, of each
\* generated mesh's own vertex positions: every entry of a mesh's section is
\* copied from that mesh, every read of a source array is within its bounds,
\* and exactly totalVertexCount entries are written.
C22_VerticesAreConcatenation ==
    mGeometries # << >> =>
        /\ VertexBufferCPU = ConcatenatedUpTo(meshes, Len(MeshOrder))
        /\ Len(VertexBufferCPU) = mGeometries["shapeGeo"].VertexCount
        /\ OutOfBoundsReads(meshes) = {}

\* A slot's Fence is 0 exactly if Draw never submitted the slot; submitted
\* slots hold values >= 1, pairwise different.
FenceTellsSubmitted ==
    /\ \A s \in Slots : Fence[s] = 0 <=> s \notin submitted
    /\ \A s \in submitted : Fence[s] >= 1
    /\ \A s1, s2 \in submitted : s1 # s2 => Fence[s1] # Fence[s2]

ReportedDown(keyState) == keyState >= 32768

\* C24: every frame's command list is recorded with the wireframe pipeline
\* state if and only if the key sample taken by the same frame's Update
\* reported the key down; from that Update to the end of the frame's Draw
\* the mode follows that sample alone, whatever the earlier frames sampled.
C24_WireframeIffKeyDown ==
    /\ [](pc \in {"wait", "blocked", "write", "draw"}
             => (mIsWireframe <=> ReportedDown(key)))
    /\ [][ /\ (pc = "draw" /\ Len(gpuQueue') > Len(gpuQueue)) =>
                 LET e == gpuQueue'[Len(gpuQueue) + 1]
                 IN  /\ e.op = "exec"
                     /\ e.pso = IF ReportedDown(key) THEN "opaque_wireframe"
                                                     ELSE "opaque"
           /\ (pc \in {"wait", "blocked", "write", "draw"} => key' = key)
         ]_vars

\* C24 witness: a frame sampled with the key down was recorded in wireframe,
\* and the next frame, whose sample reports the key up with only the
\* pressed-since-last-call bit set, was recorded solid.
C24_Witness ==
    /\ pc = "update"
    /\ key = 1
    /\ \E i, j \in InFlight :
          /\ i < j
          /\ gpuQueue[i].pso = "opaque_wireframe"
          /\ gpuQueue[j].pso = "opaque"
          /\ \A k \in InFlight : k <= j

\* C25: after any sequence of mouse events the radius is within [3, 15]
\* (600 .. 3000 units of 0.005) and mPhi within [0.1, Pi - 0.1]; a move with
\* the left button down leaves the radius unchanged, also when the right
\* button is down too; a move with only the right button down leaves the
\* angles unchanged; a move with neither button leaves radius and angles
\* unchanged; every move stores the reported position in mLastMousePos.
C25_CameraStaysInRange ==
    /\ [](/\ 600 <= mRadius /\ mRadius <= 3000
          /\ 100000 <= mPhi /\ mPhi <= 3141593 - 100000)
    /\ [][ \A btnState \in MouseButtons : \A p \in DragPositions :
              /\ OnMouseMove(btnState, p[1], p[2]) =>
                    /\ mLastMousePos' = p
                    /\ "MK_LBUTTON" \in btnState => mRadius' = mRadius
                    /\ ("MK_LBUTTON" \notin btnState /\ "MK_RBUTTON" \in btnState)
                          => (mTheta' = mTheta /\ mPhi' = mPhi)
                    /\ btnState = {}
                          => (mTheta' = mTheta /\ mPhi' = mPhi /\ mRadius' = mRadius)
              /\ (OnMouseDown(btnState, p[1], p[2]) \/ OnMouseUp(btnState, p[1], p[2]))
                    => (mTheta' = mTheta /\ mPhi' = mPhi /\ mRadius' = mRadius)
         ]_vars

\* C25 witness: a drag with the right button has pulled the radius down to
\* its lower limit and a drag with the left button has pushed mPhi to its
\* lower limit, turning the camera (mTheta) on the way.
C25_Witness ==
    /\ callbacks >= 2
    /\ mRadius = MinRadius
    /\ mPhi = MinPhi
    /\ mTheta # (3 * Pi) \div 2
    /\ mLastMousePos # Indeterminate

=============================================================================
